---- MODULE Spec2Model ----
(***************************************************************************)
(* Model of server/app/main.py: the two request handlers of the Hospital   *)
(* AI backend (POST /chat and POST /medicine-analyze) and the response     *)
(* normalizer (extract_json plus the back-filling of the expected keys).   *)
(*                                                                         *)
(* Text is a sequence of characters, each character a one-character        *)
(* string; an uploaded file is a sequence of bytes (integers).             *)
(***************************************************************************)
EXTENDS Integers, Sequences, FiniteSets, TLC

VARIABLES endpoint, request, sent, calls, outcome, response

vars == <<endpoint, request, sent, calls, outcome, response>>

(***************************************************************************)
(* Bounds of the model.                                                    *)
(***************************************************************************)
\* every text over BraceAlphabet of at most MaxLen characters is a model reply
MaxLen == 3
\* leading / trailing whitespace bytes put around an uploaded name
MaxPad == 1

(***************************************************************************)
(* str.strip(), str.startswith, str.strip(chars), str.split, find, rfind   *)
(***************************************************************************)
\* the whitespace str.strip() removes, restricted to the model's characters
Whitespace == {" ", "\n", "\t", "\r"}

\* the text without its leading characters of chars
LStrip(s, chars) ==
    IF \A i \in 1..Len(s) : s[i] \in chars THEN <<>>
    ELSE SubSeq(s,
                CHOOSE i \in 1..Len(s) :
                    s[i] \notin chars /\ \A j \in 1..(i - 1) : s[j] \in chars,
                Len(s))

\* the text without its trailing characters of chars
RStrip(s, chars) ==
    IF \A i \in 1..Len(s) : s[i] \in chars THEN <<>>
    ELSE SubSeq(s,
                1,
                CHOOSE i \in 1..Len(s) :
                    s[i] \notin chars /\ \A j \in (i + 1)..Len(s) : s[j] \in chars)

\* s.strip(chars)
StripChars(s, chars) == RStrip(LStrip(s, chars), chars)

\* a strip that takes one character off each end at most
Strip_Once(s) ==
    LET l == IF s # <<>> /\ s[1] \in Whitespace THEN Tail(s) ELSE s
    IN  IF l # <<>> /\ l[Len(l)] \in Whitespace THEN SubSeq(l, 1, Len(l) - 1) ELSE l

\* s.strip()
Strip(s) == StripChars(s, Whitespace)

\* s.startswith(p)
StartsWith(s, p) == Len(s) >= Len(p) /\ SubSeq(s, 1, Len(p)) = p

\* s.find(c) and s.rfind(c) for a one-character c, 1-based, 0 when absent
\* (Python: 0-based, -1 when absent)
Find(s, c) ==
    IF \E i \in 1..Len(s) : s[i] = c
    THEN CHOOSE i \in 1..Len(s) : s[i] = c /\ \A j \in 1..(i - 1) : s[j] # c
    ELSE 0

RFind(s, c) ==
    IF \E i \in 1..Len(s) : s[i] = c
    THEN CHOOSE i \in 1..Len(s) : s[i] = c /\ \A j \in (i + 1)..Len(s) : s[j] # c
    ELSE 0

\* s.split("\n", 1)[1]: what follows the first line break
AfterFirstLine(s) == SubSeq(s, Find(s, "\n") + 1, Len(s))

(***************************************************************************)
(* json.loads, for the JSON texts the model's characters can spell:        *)
(* objects, strings without escapes, runs of the digit 1, and null.        *)
(* A parse result is [ok, val, pos]: pos is the index after the value.     *)
(* A value is [t, s, n, o]: t the type, s the text of a string, n the      *)
(* number, o the object (a function from key to value).                    *)
(***************************************************************************)
JNull == [t |-> "null", s |-> <<>>, n |-> 0, o |-> <<>>]
JStr(x) == [t |-> "str", s |-> x, n |-> 0, o |-> <<>>]
JNum(x) == [t |-> "num", s |-> <<>>, n |-> x, o |-> <<>>]
JObj(f) == [t |-> "obj", s |-> <<>>, n |-> 0, o |-> f]

ParseError == [ok |-> FALSE, val |-> JNull, pos |-> 0]
Parsed(v, p) == [ok |-> TRUE, val |-> v, pos |-> p]

\* the JSON decoder's whitespace
JsonWhitespace == {" ", "\n", "\t", "\r"}

\* characters a string may not hold unescaped (strict mode)
ControlChars == {"\n", "\t", "\r"}

RECURSIVE SkipWs(_, _)
SkipWs(s, i) ==
    IF i <= Len(s) /\ s[i] \in JsonWhitespace THEN SkipWs(s, i + 1) ELSE i

\* s[i] is the opening quote
ParseString(s, i) ==
    LET rest == SubSeq(s, i + 1, Len(s))
        close == Find(rest, "\"")
        body == SubSeq(rest, 1, close - 1)
    IN  IF close = 0 THEN ParseError
        ELSE IF \E k \in 1..Len(body) : body[k] \in ControlChars THEN ParseError
        ELSE Parsed(JStr(body), i + close + 1)

RECURSIVE DigitsEnd(_, _)
DigitsEnd(s, i) ==
    IF i <= Len(s) /\ s[i] = "1" THEN DigitsEnd(s, i + 1) ELSE i

RECURSIVE Ones(_)
Ones(k) == IF k = 0 THEN 0 ELSE 10 * Ones(k - 1) + 1

\* s[i] is the digit 1: the integer the run of digits spells
ParseNumber(s, i) ==
    LET e == DigitsEnd(s, i)
    IN  Parsed(JNum(Ones(e - i)), e)

\* dict[key] = val: a repeated key keeps the last value
Put(obj, key, val) ==
    [k \in (DOMAIN obj) \cup {key} |-> IF k = key THEN val ELSE obj[k]]

RECURSIVE ParseValue(_, _)
RECURSIVE ParseMembers(_, _, _)

\* s[i] starts "key" : value, then a comma and more members, or the closing brace
ParseMembers(s, i, acc) ==
    IF i > Len(s) \/ s[i] # "\"" THEN ParseError
    ELSE
    LET key == ParseString(s, i)
    IN  IF ~key.ok THEN ParseError
        ELSE
        LET colon == SkipWs(s, key.pos)
        IN  IF colon > Len(s) \/ s[colon] # ":" THEN ParseError
            ELSE
            LET v == ParseValue(s, SkipWs(s, colon + 1))
            IN  IF ~v.ok THEN ParseError
                ELSE
                LET obj == Put(acc, key.val.s, v.val)
                    next == SkipWs(s, v.pos)
                IN  IF next > Len(s) THEN ParseError
                    ELSE IF s[next] = "}" THEN Parsed(JObj(obj), next + 1)
                    ELSE IF s[next] = ","
                         THEN ParseMembers(s, SkipWs(s, next + 1), obj)
                    ELSE ParseError

\* s[i] is the opening brace
ParseObject(s, i) ==
    LET j == SkipWs(s, i + 1)
    IN  IF j <= Len(s) /\ s[j] = "}" THEN Parsed(JObj(<<>>), j + 1)
        ELSE ParseMembers(s, j, <<>>)

ParseValue(s, i) ==
    IF i > Len(s) THEN ParseError
    ELSE IF s[i] = "{" THEN ParseObject(s, i)
    ELSE IF s[i] = "\"" THEN ParseString(s, i)
    ELSE IF s[i] = "1" THEN ParseNumber(s, i)
    ELSE IF StartsWith(SubSeq(s, i, Len(s)), <<"n", "u", "l", "l">>)
         THEN Parsed(JNull, i + 4)
    ELSE ParseError

\* json.loads(s): one value with nothing but whitespace around it; a result
\* that is not ok stands for the exception json.loads raises
JsonLoads(s) ==
    LET v == ParseValue(s, SkipWs(s, 1))
    IN  IF v.ok /\ SkipWs(s, v.pos) = Len(s) + 1 THEN v ELSE ParseError

(***************************************************************************)
(* The normalizer of /medicine-analyze.                                    *)
(***************************************************************************)
\* Python's None, as a value beside the JSON values
PyNone == [t |-> "none", s |-> <<>>, n |-> 0, o |-> <<>>]

\* the backtick character (a string of the module cannot hold it)
Backtick == "BACKTICK"

\* the fence marker s.startswith tests for
Fence == <<Backtick, Backtick, Backtick>>

\* extract_json, up to the search for the braces: trim; when the text starts
\* with a fence, strip the backticks off both ends and drop the first line
\* when there is a line break anywhere in what is left
FenceHandled(s) ==
    LET t == Strip(s)
    IN  IF StartsWith(t, Fence)
        THEN LET u == StripChars(t, {Backtick})
             IN  IF Find(u, "\n") # 0 THEN AfterFirstLine(u) ELSE u
        ELSE t

\* extract_json: the value json.loads gives for the span from the first
\* opening brace to the last closing brace, None when there is no such span;
\* a result that is not ok stands for the exception json.loads raises
extract_json_FirstClose(s) ==
    LET t == FenceHandled(s)
        start == Find(t, "{")
        end == Find(t, "}")
    IN  IF start # 0 /\ end # 0 /\ end > start
        THEN JsonLoads(SubSeq(t, start, end))
        ELSE Parsed(PyNone, 0)

extract_json(s) ==
    LET t == FenceHandled(s)
        start == Find(t, "{")
        end == RFind(t, "}")
    IN  IF start # 0 /\ end # 0 /\ end > start
        THEN JsonLoads(SubSeq(t, start, end))
        ELSE Parsed(PyNone, 0)

\* "not data": None, an empty dict, an empty string and zero are falsy
Falsy(v) ==
    \/ v.t = "none"
    \/ v.t = "null"
    \/ v.t = "obj" /\ DOMAIN v.o = {}
    \/ v.t = "str" /\ v.s = <<>>
    \/ v.t = "num" /\ v.n = 0

\* the expected keys, in the order of the list
keys ==
    << <<"n","a","m","e">>,
       <<"g","e","n","e","r","i","c">>,
       <<"s","t","r","e","n","g","t","h">>,
       <<"f","o","r","m">>,
       <<"i","n","d","i","c","a","t","i","o","n","s">>,
       <<"c","o","n","t","r","a","i","n","d","i","c","a","t","i","o","n","s">>,
       <<"s","i","d","e","_","e","f","f","e","c","t","s">>,
       <<"w","a","r","n","i","n","g","s">>,
       <<"i","n","t","e","r","a","c","t","i","o","n","s">>,
       <<"p","r","e","g","n","a","n","c","y">>,
       <<"s","c","h","e","d","u","l","e">>,
       <<"n","o","t","e">> >>

\* a default of null in place of the empty string
SetDefault_Null(obj, k) ==
    IF k \in DOMAIN obj THEN obj ELSE Put(obj, k, JNull)

\* data[k] = "": the value is lost when k is there
SetDefault_Overwrite(obj, k) == Put(obj, k, JStr(<<>>))

\* data.setdefault(k, ""): the value stays when k is there
SetDefault(obj, k) ==
    IF k \in DOMAIN obj THEN obj ELSE Put(obj, k, JStr(<<>>))

\* for k in keys: data.setdefault(k, "")
RECURSIVE SetDefaults(_, _)
SetDefaults(obj, ks) ==
    IF ks = <<>> THEN obj ELSE SetDefaults(SetDefault(obj, Head(ks)), Tail(ks))

\* a normalizer that hands back the text the braces were searched in
Normalize_RawFenceHandled(content) ==
    LET raw == Strip(content)
        r == extract_json(raw)
        data == IF r.ok THEN r.val ELSE PyNone
    IN  IF Falsy(data)
        THEN [raw |-> FenceHandled(raw), parsed |-> FALSE]
        ELSE [parsed |-> TRUE, data |-> SetDefaults(data.o, keys)]

\* the body of the reply, from the text of the model as received
Normalize(content) ==
    LET raw == Strip(content)
        r == extract_json(raw)
        data == IF r.ok THEN r.val ELSE PyNone
    IN  IF Falsy(data)
        THEN [raw |-> raw, parsed |-> FALSE]
        ELSE [parsed |-> TRUE, data |-> SetDefaults(data.o, keys)]

(***************************************************************************)
(* bytes.decode('utf-8'), for one- and two-byte characters.                *)
(***************************************************************************)
\* the character of a code point: ASCII characters as themselves, any other
\* by the name of its code point
Chr(cp) ==
    CASE cp = 9 -> "\t"
      [] cp = 10 -> "\n"
      [] cp = 32 -> " "
      [] cp = 80 -> "P"
      [] cp = 233 -> "U+00E9"
      [] OTHER -> "OTHER"

IsAscii(b) == b < 128
IsLead2(b) == b \in 194..223
IsContinuation(b) == b \in 128..191

\* a continuation byte decodes to no character of its own
NoChar == ""
IsChar(c) == c # NoChar

\* a result that is not ok stands for UnicodeDecodeError: every byte is an
\* ASCII byte, the lead of a two-byte character with its continuation after
\* it, or the continuation right after such a lead
DecodeUtf8(bytes) ==
    LET n == Len(bytes)
        wellFormed ==
            \A i \in 1..n :
                \/ IsAscii(bytes[i])
                \/ IsLead2(bytes[i]) /\ i < n /\ IsContinuation(bytes[i + 1])
                \/ IsContinuation(bytes[i]) /\ i > 1 /\ IsLead2(bytes[i - 1])
        units ==
            [i \in 1..n |->
                IF IsAscii(bytes[i]) THEN Chr(bytes[i])
                ELSE IF IsLead2(bytes[i])
                THEN Chr((bytes[i] - 192) * 64 + (bytes[i + 1] - 128))
                ELSE NoChar]
    IN  IF wellFormed
        THEN [ok |-> TRUE, text |-> SelectSeq(units, IsChar)]
        ELSE [ok |-> FALSE, text |-> <<>>]

(***************************************************************************)
(* The prompts.  A fixed piece of text is one element of the sequence.     *)
(***************************************************************************)
ChatSystem ==
    <<"You are a helpful healthcare assistant. When a user asks a question, first give a short definition/explanation in one paragraph. Then, give numbered precautions or tips in plain text (no markdown, no stars). Keep it clear, factual, and easy to read.">>

\* the literal of the handler, its bullets and dash written in ASCII
system ==
    <<"You are a pharmacist assistant. Based on the medicine name provided, give general information about the medicine. Provide a concise, **general** info summary WITHOUT dosing: - Indications (what it's for) - Who should avoid (contraindications) - Common side effects - Serious warnings (black-box or high risk) - Interactions (big ones only) - Pregnancy/Lactation caution - Schedule/OTC note (if region-agnostic) Always add: 'Educational use only - consult a doctor/pharmacist.' Return JSON only in this schema: {name:'', generic:'', strength:'', form:'', indications:'', contraindications:'', side_effects:'', warnings:'', interactions:'', pregnancy:'', schedule:'', note:''}">>

Message(role, content) == [role |-> role, content |-> content]

\* the length under which decoded text counts as a medicine name
MedNameLimit == 100

Paracetamol == <<"P", "a", "r", "a", "c", "e", "t", "a", "m", "o", "l">>

\* a name accepted by the number of its bytes
medicine_name_ByteLength(file_content) ==
    LET d == DecodeUtf8(file_content)
        text_content == Strip(d.text)
    IN  IF d.ok
        THEN IF text_content # <<>> /\ Len(file_content) < MedNameLimit
             THEN text_content
             ELSE Paracetamol
        ELSE Paracetamol

\* the name put in the prompt, from the bytes of the uploaded file
medicine_name(file_content) ==
    LET d == DecodeUtf8(file_content)
        text_content == Strip(d.text)
    IN  IF d.ok
        THEN IF text_content # <<>> /\ Len(text_content) < MedNameLimit
             THEN text_content
             ELSE Paracetamol
        ELSE Paracetamol

user_prompt(name) == <<"Provide information about the medicine: ">> \o name

\* the messages of the two calls
ChatMessages(question) ==
    <<Message("system", ChatSystem), Message("user", question)>>

MedicineMessages(file_content) ==
    <<Message("system", system),
      Message("user", user_prompt(medicine_name(file_content)))>>

(***************************************************************************)
(* What client.chat.completions.create does: it returns the text of the    *)
(* first choice, or raises an exception with a message.                    *)
(***************************************************************************)
Returned(text) == [raised |-> FALSE, content |-> text]
Raised(message) == [raised |-> TRUE, content |-> message]

\* a reply of /chat with the answer trimmed
ChatResponse_Trimmed(o) ==
    IF o.raised
    THEN [status |-> 200, body |-> [error |-> o.content]]
    ELSE [status |-> 200, body |-> [answer |-> Strip(o.content)]]

\* the reply of /chat for one outcome of the call
ChatResponse(o) ==
    IF o.raised
    THEN [status |-> 200, body |-> [error |-> o.content]]
    ELSE [status |-> 200, body |-> [answer |-> o.content]]

\* a reply of /medicine-analyze that reports a failure the way /chat does
MedicineResponse_ErrorField(o) ==
    IF o.raised
    THEN [status |-> 200, body |-> [error |-> o.content]]
    ELSE [status |-> 200, body |-> Normalize(o.content)]

\* the reply of /medicine-analyze for one outcome of the call
MedicineResponse(o) ==
    IF o.raised
    THEN [status |-> 500,
          body |-> [detail |-> <<"Error analyzing medicine: ">> \o o.content]]
    ELSE [status |-> 200, body |-> Normalize(o.content)]

(***************************************************************************)
(* The inputs: questions, uploaded files, and outcomes of the call.        *)
(***************************************************************************)
\* k copies of x, one after the other
Repeat(x, k) == [i \in 1..(k * Len(x)) |-> x[((i - 1) % Len(x)) + 1]]

Quoted(x) == <<"\"">> \o x \o <<"\"">>
Member(k, v) == Quoted(k) \o <<":">> \o v
Object1(k, v) == <<"{">> \o Member(k, v) \o <<"}">>
Object2(k1, v1, k2, v2) ==
    <<"{">> \o Member(k1, v1) \o <<",", " ">> \o Member(k2, v2) \o <<"}">>

RECURSIVE Members(_)
Members(ks) ==
    IF Len(ks) = 1 THEN Member(ks[1], Quoted(<<"X">>))
    ELSE Member(ks[1], Quoted(<<"X">>)) \o <<",">> \o Members(Tail(ks))

Questions == { <<>>, <<"W", "h", "a", "t", " ", "i", "s", " ", "f", "e", "v", "e", "r", "?">>, <<" ", "x", "\n">> }

\* the bytes of "P", of U+00E9 in two bytes, and of a space
NameBodies == { <<80>>, <<195, 169>> }
NameLengths == {0, 1, MedNameLimit - 1, MedNameLimit}
Files ==
    { Repeat(<<32>>, p) \o Repeat(b, k) \o Repeat(<<10>>, p) :
        p \in 0..MaxPad, b \in NameBodies, k \in NameLengths }
    \cup { <<255>>, <<80, 195>>, <<169, 80>>, <<80, 32, 80>> }

JsonBodies ==
    { <<"{", "}">>,
      <<"{", " ", "}">>,
      Object1(<<"a">>, <<"1">>),
      Object1(keys[1], Quoted(<<"X">>)),
      Object1(keys[1], Quoted(<<>>)),
      Object2(keys[1], <<"n", "u", "l", "l">>, <<"a">>, Quoted(<<"X">>)),
      Object2(keys[4], <<"1", "1">>, keys[12], <<"n", "u", "l", "l">>),
      Object2(<<"a">>, <<"1">>, <<"a">>, Quoted(<<"X">>)),
      Object1(<<"a">>, Object1(keys[12], Quoted(<<"X">>))),
      <<"{">> \o Members(keys) \o <<"}">> }

BrokenBodies ==
    { Object1(<<"a">>, <<"1">>) \o <<" ">> \o Object1(<<"a">>, <<"1">>),
      <<"{">> \o Member(<<"a">>, <<"1">>),
      <<"{", "a", ":", "1", "}">>,
      <<"{">> \o Member(<<"a">>, <<"1">>) \o <<",", "}">>,
      Object1(<<"a">>, Quoted(<<"\n">>)),
      <<"}", "{">>,
      <<"x">>,
      <<>> }

Prefixes ==
    { <<>>,
      <<"n", "o", "i", "s", "e", " ">>,
      <<" ", "\n">>,
      Fence \o <<"j", "s", "o", "n", "\n">>,
      Fence \o <<"\n">>,
      Fence }

Suffixes ==
    { <<>>,
      <<" ", "t", "r", "a", "i", "l", "i", "n", "g">>,
      <<"\n">> \o Fence,
      Fence \o <<"\n">>,
      <<" ", "}">> }

\* every text of at most MaxLen characters over the braces, the backtick and
\* the line break
BraceAlphabet == {"{", "}", Backtick, "\n"}
ShortTexts == UNION { [1..k -> BraceAlphabet] : k \in 0..MaxLen }

Replies ==
    { p \o b \o s : p \in Prefixes, b \in JsonBodies \cup BrokenBodies, s \in Suffixes }
    \cup ShortTexts

Exceptions ==
    { <<"t", "i", "m", "e", "o", "u", "t">>, <<"4", "0", "1", " ", "{", "}">> }

Outcomes == { Returned(r) : r \in Replies } \cup { Raised(e) : e \in Exceptions }

(***************************************************************************)
(* The handlers.  The server keeps no state between requests: a handler    *)
(* reads its request and the outcome of its one call and nothing else, so  *)
(* a behaviour is one request, received in the first state and answered by *)
(* the step of its handler.                                                *)
(***************************************************************************)
ChatRequest(question) == [path |-> "/chat", body |-> question]
Upload(file) == [path |-> "/medicine-analyze", body |-> file]

NoOutcome == Raised(<<>>)
NoResponse == [status |-> 0, body |-> <<>>]

Init ==
    /\ \/ \E q \in Questions : request = ChatRequest(q)
       \/ \E f \in Files : request = Upload(f)
    /\ endpoint = "none"
    /\ sent = <<>>
    /\ calls = 0
    /\ outcome = NoOutcome
    /\ response = NoResponse

\* POST /chat
chat_endpoint ==
    /\ endpoint = "none"
    /\ request.path = "/chat"
    /\ \E o \in Outcomes :
        /\ endpoint' = "chat"
        /\ sent' = ChatMessages(request.body)
        /\ calls' = calls + 1
        /\ outcome' = o
        /\ response' = ChatResponse(o)
    /\ UNCHANGED request

\* POST /medicine-analyze
medicine_analyze ==
    /\ endpoint = "none"
    /\ request.path = "/medicine-analyze"
    /\ LET messages == MedicineMessages(request.body) IN
       \E o \in Outcomes :
        /\ endpoint' = "medicine"
        /\ sent' = messages
        /\ calls' = calls + 1
        /\ outcome' = o
        /\ response' = MedicineResponse(o)
    /\ UNCHANGED request

Next == chat_endpoint \/ medicine_analyze

Spec == Init /\ [][Next]_vars

(***************************************************************************)
(* The properties.                                                         *)
(***************************************************************************)
\* the 12 fields of a MedicineRecord
ExpectedFields ==
    { <<"n","a","m","e">>,
      <<"g","e","n","e","r","i","c">>,
      <<"s","t","r","e","n","g","t","h">>,
      <<"f","o","r","m">>,
      <<"i","n","d","i","c","a","t","i","o","n","s">>,
      <<"c","o","n","t","r","a","i","n","d","i","c","a","t","i","o","n","s">>,
      <<"s","i","d","e","_","e","f","f","e","c","t","s">>,
      <<"w","a","r","n","i","n","g","s">>,
      <<"i","n","t","e","r","a","c","t","i","o","n","s">>,
      <<"p","r","e","g","n","a","n","c","y">>,
      <<"s","c","h","e","d","u","l","e">>,
      <<"n","o","t","e">> }

\* an object completed with "" for every expected field it lacks
Completed(o) ==
    [k \in (DOMAIN o) \cup ExpectedFields |-> IF k \in DOMAIN o THEN o[k] ELSE JStr(<<>>)]

\* the text has no span from a first opening brace to a later last closing brace
NoSpan(t) ==
    \/ Find(t, "{") = 0
    \/ Find(t, "}") = 0
    \/ ~(RFind(t, "}") > Find(t, "{"))

\* the span from the first opening brace to the last closing brace
BraceSpan(t) == SubSeq(t, Find(t, "{"), RFind(t, "}"))

\* /medicine-analyze was served and the call returned a text
MedicineReturned == endpoint = "medicine" /\ ~outcome.raised
ChatReturned == endpoint = "chat" /\ ~outcome.raised

Json == <<"j", "s", "o", "n">>
Noise == <<"n", "o", "i", "s", "e", " ">>
Trailing == <<" ", "t", "r", "a", "i", "l", "i", "n", "g">>
TwoFragments == Object1(<<"a">>, <<"1">>) \o <<" ">> \o Object1(<<"a">>, <<"1">>)

\* C1: a reply whose text, after the fence handling, has no opening brace, no
\* closing brace, or its last closing brace not after its first opening brace
\* is answered parsed:false with raw the trimmed reply as received, and with
\* no data field.
C1_NoSpanGivesRaw ==
    MedicineReturned /\ NoSpan(FenceHandled(outcome.content))
        => response = [status |-> 200,
                       body |-> [raw |-> Strip(outcome.content), parsed |-> FALSE]]

C1_Witness ==
    /\ MedicineReturned
    /\ StartsWith(Strip(outcome.content), Fence)
    /\ NoSpan(FenceHandled(outcome.content))
    /\ Strip(outcome.content) # outcome.content
    /\ FenceHandled(outcome.content) # Strip(outcome.content)
    /\ response.body.parsed = FALSE

\* C2: every parsed:true result carries a data record with all 12 expected
\* fields, and each expected field missing from the parsed object is "".
C2_AllExpectedFields ==
    MedicineReturned /\ response.body.parsed
        => /\ DOMAIN response.body = {"parsed", "data"}
           /\ \A k \in ExpectedFields :
                /\ k \in DOMAIN response.body.data
                /\ k \notin DOMAIN extract_json(Strip(outcome.content)).val.o
                     => response.body.data[k] = JStr(<<>>)

C2_Witness ==
    /\ MedicineReturned
    /\ response.body.parsed
    /\ outcome.content = Object1(<<"n","a","m","e">>, Quoted(<<"X">>))
    /\ response.body.data[<<"n","a","m","e">>] = JStr(<<"X">>)
    /\ response.body.data[<<"n","o","t","e">>] = JStr(<<>>)

\* C3: the result is parsed:false only when a brace is absent, the last
\* closing brace is not after the first opening brace, or the span between
\* them is not JSON; whenever the span parses as a JSON object the result is
\* parsed:true with data that object completed with the defaults.
C3_ParsedIffObject ==
    MedicineReturned
        => LET t == FenceHandled(outcome.content)
               j == JsonLoads(BraceSpan(t))
           IN  /\ ~response.body.parsed => NoSpan(t) \/ ~j.ok
               /\ ~NoSpan(t) /\ j.ok
                    => response.body = [parsed |-> TRUE, data |-> Completed(j.val.o)]

\* C4: a reply that is a fence, an optional language tag, a line break, a JSON
\* object, a line break and a fence is answered parsed:true with data that
\* object completed with the defaults.
C4_FencedObject ==
    \A tag \in {<<>>, Json}, O \in JsonBodies :
        MedicineReturned
        /\ outcome.content = Fence \o tag \o <<"\n">> \o O \o <<"\n">> \o Fence
            => response.body = [parsed |-> TRUE, data |-> Completed(JsonLoads(O).val.o)]

\* C5: for a reply that does not start with a fence, the one text parsed is
\* the span from the first opening brace to the last closing brace: a
\* parsed:true result is that span's object completed, the result is
\* parsed:false when the span is not JSON, and "noise {"a":1} trailing" gives
\* a:1 and the 12 expected fields "".
C5_FirstToLastSpan ==
    MedicineReturned /\ ~StartsWith(Strip(outcome.content), Fence)
        => LET t == Strip(outcome.content)
               j == JsonLoads(BraceSpan(t))
           IN  /\ response.body.parsed
                    => ~NoSpan(t) /\ j.ok /\ response.body.data = Completed(j.val.o)
               /\ NoSpan(t) \/ ~j.ok => ~response.body.parsed
               /\ outcome.content = Noise \o Object1(<<"a">>, <<"1">>) \o Trailing
                    => response.body =
                         [parsed |-> TRUE, data |-> Completed(<<"a">> :> JNum(1))]

C5_Witness ==
    /\ MedicineReturned
    /\ outcome.content = Noise \o TwoFragments \o Trailing
    /\ JsonLoads(Object1(<<"a">>, <<"1">>)).ok
    /\ response.body.parsed = FALSE

\* C6: normalizing the raw of a parsed:false result again gives the same
\* parsed:false result.
C6_FailureIdempotent ==
    MedicineReturned /\ ~response.body.parsed
        => Normalize(response.body.raw) = response.body

C6_Witness ==
    /\ MedicineReturned
    /\ ~response.body.parsed
    /\ response.body.raw # outcome.content
    /\ Len(outcome.content) >= Len(response.body.raw) + 2

\* C7: when the call of /chat returns a text, the messages sent are the
\* system instruction and the user message with the question, and the reply
\* is the answer, the text unchanged, with no error field.
C7_ChatAnswerUnchanged ==
    ChatReturned
        => /\ sent = <<[role |-> "system", content |-> ChatSystem],
                       [role |-> "user", content |-> request.body]>>
           /\ response = [status |-> 200, body |-> [answer |-> outcome.content]]

C7_Witness ==
    /\ ChatReturned
    /\ request.body # <<>>
    /\ Strip(outcome.content) # outcome.content
    /\ response.body.answer = outcome.content

\* C8: when the call raises, it was made once; /chat answers 200 with the
\* message in an error field and no answer, /medicine-analyze answers 500
\* with a detail that ends in the message and no parsed, data or raw.
C8_FailureReported ==
    endpoint # "none" /\ outcome.raised
        => /\ calls = 1
           /\ endpoint = "chat"
                => response = [status |-> 200, body |-> [error |-> outcome.content]]
           /\ endpoint = "medicine"
                => /\ response.status = 500
                   /\ DOMAIN response.body = {"detail"}
                   /\ response.body.detail
                        = <<"Error analyzing medicine: ">> \o outcome.content

C8_Witness ==
    /\ endpoint = "medicine"
    /\ outcome.raised
    /\ outcome.content # <<>>
    /\ response.status = 500

\* C9: the name in the user prompt is the decoded, trimmed text of the file
\* exactly when the file decodes and that text is not empty and has fewer
\* than 100 characters, and is Paracetamol otherwise; the call is made in
\* both cases and no error is signalled when it returns.
C9_MedicineName ==
    endpoint = "medicine"
        => LET d == DecodeUtf8(request.body)
               text == Strip(d.text)
               plausible == d.ok /\ text # <<>> /\ Len(text) < 100
           IN  /\ sent[2] = [role |-> "user",
                             content |-> <<"Provide information about the medicine: ">>
                                           \o (IF plausible THEN text ELSE Paracetamol)]
               /\ calls = 1
               /\ ~outcome.raised => response.status = 200

C9_Witness ==
    /\ endpoint = "medicine"
    /\ Len(request.body) > 100
    /\ DecodeUtf8(request.body).ok
    /\ Len(Strip(DecodeUtf8(request.body).text)) = 99
    /\ sent[2].content
         = <<"Provide information about the medicine: ">>
             \o Strip(DecodeUtf8(request.body).text)

\* C10: in a parsed:true result every key of the parsed object is in data
\* with the value it was parsed with: other fields stay, and an expected
\* field that is there keeps its value, null or a number included.
C10_BackfillOnlyAdds ==
    MedicineReturned /\ response.body.parsed
        => LET o == extract_json(Strip(outcome.content)).val.o
           IN  \A k \in DOMAIN o :
                 k \in DOMAIN response.body.data /\ response.body.data[k] = o[k]

C10_Witness ==
    /\ MedicineReturned
    /\ response.body.parsed
    /\ response.body.data[<<"n","a","m","e">>] = JNull
    /\ response.body.data[<<"a">>] = JStr(<<"X">>)
    /\ <<"a">> \notin ExpectedFields

====
